---- MODULE Spec2Model ----
(***************************************************************************)
(* Model of app/main.py: the survey-data gateway.                          *)
(*                                                                         *)
(* Text is modelled as a sequence of atoms.  An atom is a TLA+ string that *)
(* stands for one character or for one indivisible run of characters, so   *)
(* that upper(), endswith(), str(), int() and the f-string interpolation   *)
(* of the query are computed on text and not assumed.  The atom DQ stands  *)
(* for the double-quote character.                                         *)
(***************************************************************************)
EXTENDS Integers, Sequences, FiniteSets, TLC

\* ------------------------------------------------------------------ bounds
NReq == 2          \* request slots served concurrently under SysSpec
MaxConns == 2      \* storage connections that can be open at the same time

\* -------------------------------------------------------------------- text
DQ == "dquote"

None == [isNone |-> TRUE, s |-> <<>>]
Some(s) == [isNone |-> FALSE, s |-> s]

\* Python truthiness of an Optional[str]: None and "" are both falsy.
Truthy(x) == ~x.isNone /\ Len(x.s) > 0

\* The letters that occur in the table names of the requests.
UpperAtom(a) ==
    CASE a = "h" -> "H" [] a = "f" -> "F" [] a = "v" -> "V" [] a = "r" -> "R"
      [] a = "p" -> "P" [] a = "e" -> "E" [] a = "u" -> "U" [] a = "s" -> "S"
      [] OTHER -> a

\* str.upper()
Upper(s) == [i \in 1..Len(s) |-> UpperAtom(s[i])]

\* str.endswith()
EndsWith(s, suffix) ==
    /\ Len(s) >= Len(suffix)
    /\ SubSeq(s, Len(s) - Len(suffix) + 1, Len(s)) = suffix

DigitAtom == <<"0", "1", "2", "3", "4", "5", "6", "7", "8", "9">>

IsDigit(a) == \E d \in 1..10 : DigitAtom[d] = a

DigitVal(a) == (CHOOSE d \in 1..10 : DigitAtom[d] = a) - 1

RECURSIVE Digits(_)
Digits(n) ==
    IF n < 10 THEN <<DigitAtom[n + 1]>>
    ELSE Digits(n \div 10) \o <<DigitAtom[(n % 10) + 1]>>

\* str() of an int
IntStr(n) == IF n < 0 THEN <<"-">> \o Digits(-n) ELSE Digits(n)

RECURSIVE DigitsVal(_)
DigitsVal(s) ==
    IF Len(s) = 0 THEN 0
    ELSE 10 * DigitsVal(SubSeq(s, 1, Len(s) - 1)) + DigitVal(s[Len(s)])

\* ------------------------------------------------------------------ values
\* A stored or decoded value: an integer, a text or NULL/None.
IntV(n) == [t |-> "int", n |-> n, s |-> <<>>]
StrV(s) == [t |-> "str", n |-> 0, s |-> s]
NullV == [t |-> "null", n |-> 0, s |-> <<>>]

\* Python str(val)
Str(v) ==
    CASE v.t = "int" -> IntStr(v.n)
      [] v.t = "str" -> v.s
      [] OTHER -> <<"N", "o", "n", "e">>

\* ------------------------------------------------------------ identifiers
HHFV == <<"H", "H", "F", "V", "_2019-20">>
HHRV == <<"H", "H", "R", "V", "_2019-20">>
PERFV == <<"P", "E", "R", "F", "V", "_2019-20">>
PERRV == <<"P", "E", "R", "R", "V", "_2019-20">>

allowed_tables == {HHFV, HHRV, PERFV, PERRV}

\* ------------------------------------------------------------------- state
VARIABLES
    metadata,   \* the loaded metadata.json: entries in file order
    db,         \* the tables stored in the file at DB_PATH
    dqs,        \* the SQLite build reads an unknown "name" as a string literal
    file,       \* the file at DB_PATH: absent, or its content and origin
    proc,       \* the process: down, or its position in module start-up
    req,        \* per request slot: the handler's position and locals
    conns       \* the storage connections that are open

vars == <<metadata, db, dqs, file, proc, req, conns>>

\* ---------------------------------------------------------------- metadata
EmptyMap == <<>>

MetaEntry(key, id, label, hasCat, categories) ==
    [key |-> key, id |-> id, label |-> label, hasCat |-> hasCat,
     categories |-> categories]

\* metadata[k]
Entry(k) == metadata[CHOOSE i \in 1..Len(metadata) : metadata[i].key = k]

\* metadata.keys(): a dict keeps the order of the file
MetadataKeys == [i \in 1..Len(metadata) |-> metadata[i].key]

\* int(metadata[k]["id"][1:])
IdNum(k) == DigitsVal(SubSeq(Entry(k).id, 2, Len(Entry(k).id)))

\* keys.sort(key=lambda k: int(metadata[k]["id"][1:])): list.sort is stable
\* and ascending, so keys with equal numbers keep the order of the file.
RECURSIVE SortedInsert(_, _)
SortedInsert(sorted, k) ==
    IF Len(sorted) = 0 THEN <<k>>
    ELSE IF IdNum(sorted[Len(sorted)]) <= IdNum(k) THEN Append(sorted, k)
    ELSE Append(SortedInsert(SubSeq(sorted, 1, Len(sorted) - 1), k),
                sorted[Len(sorted)])

RECURSIVE StableSort(_)
StableSort(s) ==
    IF Len(s) = 0 THEN <<>>
    ELSE SortedInsert(StableSort(SubSeq(s, 1, Len(s) - 1)), s[Len(s)])

InSuffixMap(table) == table \in {HHFV, HHRV, PERFV, PERRV}

suffix_map(table) ==
    CASE table = HHFV -> <<"_hh", "_fv">>
      [] table = HHRV -> <<"_hh", "_rv">>
      [] table = PERFV -> <<"_per", "_fv">>
      [] table = PERRV -> <<"_per", "_rv">>

\* Mutant: the keys left in the order of the file.
SortKeysSkipped(keys) == keys

SortKeys(keys) == StableSort(keys)

\* get_metadata_keys(table): raised is the ValueError("Unknown table")
get_metadata_keys(table) ==
    IF ~InSuffixMap(table) THEN [raised |-> TRUE, keys |-> <<>>]
    ELSE LET suffix == suffix_map(table)
             HasSuffix(k) == EndsWith(k, suffix)
             keys == SelectSeq(MetadataKeys, HasSuffix)
         IN [raised |-> FALSE, keys |-> SortKeys(keys)]

\* labels and categories_list of get_table_data
Labels(meta_keys) == [i \in 1..Len(meta_keys) |-> Entry(meta_keys[i]).label]

\* metadata[k].get("categories", {})
Categories(k) == IF Entry(k).hasCat THEN Entry(k).categories ELSE EmptyMap

CategoriesList(meta_keys) == [i \in 1..Len(meta_keys) |-> Categories(meta_keys[i])]

\* ---------------------------------------------------------------- decoding
\* Mutant: a value without an entry comes back as its text.
DisplayValCoerced(categories, val) ==
    IF DOMAIN categories # {}
    THEN IF Str(val) \in DOMAIN categories
         THEN StrV(categories[Str(val)]) ELSE StrV(Str(val))
    ELSE val

\* categories.get(str(val), val) if categories else val
DisplayVal(categories, val) ==
    IF DOMAIN categories # {}
    THEN IF Str(val) \in DOMAIN categories
         THEN StrV(categories[Str(val)]) ELSE val
    ELSE val

\* item[label] = display_val: a later write to the same label replaces it
SetItem(item, label, v) ==
    [l \in DOMAIN item \cup {label} |-> IF l = label THEN v ELSE item[l]]

\* The inner loop over enumerate(row); labels[idx] past the end of labels is
\* an IndexError.
RECURSIVE DecodeCols(_, _, _, _)
DecodeCols(row, n, labels, categories_list) ==
    IF n = 0 THEN [raised |-> FALSE, item |-> EmptyMap]
    ELSE LET before == DecodeCols(row, n - 1, labels, categories_list)
         IN IF before.raised \/ n > Len(labels)
            THEN [raised |-> TRUE, item |-> EmptyMap]
            ELSE [raised |-> FALSE,
                  item |-> SetItem(before.item, labels[n],
                                   DisplayVal(categories_list[n], row[n]))]

DecodeRow(row, labels, categories_list) ==
    DecodeCols(row, Len(row), labels, categories_list)

\* The outer loop over rows.
DecodeRows(rows, labels, categories_list) ==
    LET each == [i \in 1..Len(rows) |-> DecodeRow(rows[i], labels, categories_list)]
    IN IF \E i \in 1..Len(rows) : each[i].raised
       THEN [raised |-> TRUE, result |-> <<>>]
       ELSE [raised |-> FALSE, result |-> [i \in 1..Len(rows) |-> each[i].item]]

\* ------------------------------------------------------------------- query
NoLimit == [isNone |-> TRUE, n |-> 0]
Limit(n) == [isNone |-> FALSE, n |-> n]

\* if filter_col and filter_val:
FilterApplies(filter_col, filter_val) == Truthy(filter_col) /\ Truthy(filter_val)

\* if limit is not None:
LimitApplies(limit) == ~limit.isNone

\* f' WHERE "{filter_col}" = ?': the column name is spliced into the text
WhereClause(filter_col) == <<" WHERE ", DQ>> \o filter_col.s \o <<DQ, " = ?">>

\* f" LIMIT {limit}"
LimitClause(limit) == <<" LIMIT ">> \o IntStr(limit.n)

\* query, as get_table_data builds it
BuildQuery(table_name, limit, filter_col, filter_val) ==
    LET q0 == <<"SELECT * FROM ", DQ>> \o table_name \o <<DQ>>
        q1 == IF FilterApplies(filter_col, filter_val)
              THEN q0 \o WhereClause(filter_col) ELSE q0
    IN IF LimitApplies(limit) THEN q1 \o LimitClause(limit) ELSE q1

\* params, as get_table_data builds it
BuildParams(filter_col, filter_val) ==
    IF FilterApplies(filter_col, filter_val) THEN <<filter_val.s>> ELSE <<>>

\* ---------------------------------------------------------- storage engine
\* What conn.execute(query, params) does with the text: SQLite's reading of
\* the statements that the requests of this model can produce.
\*   SELECT * FROM "t" [WHERE "c" = ? [OR 1=1]] [UNION ALL SELECT * FROM "u"]
\*   [LIMIT n] [-- comment]
At(q, i) == IF i >= 1 /\ i <= Len(q) THEN q[i] ELSE ""

\* The index of the quote that closes an identifier whose text starts at j
\* (two quotes in a row are one quote inside the name); 0 when none closes it.
RECURSIVE CloseQuote(_, _)
CloseQuote(q, j) ==
    IF j > Len(q) THEN 0
    ELSE IF q[j] = DQ
         THEN IF At(q, j + 1) = DQ THEN CloseQuote(q, j + 2) ELSE j
         ELSE CloseQuote(q, j + 1)

RECURSIVE Unescape(_)
Unescape(s) ==
    IF Len(s) = 0 THEN <<>>
    ELSE IF s[1] = DQ /\ At(s, 2) = DQ
         THEN <<DQ>> \o Unescape(SubSeq(s, 3, Len(s)))
         ELSE <<s[1]>> \o Unescape(SubSeq(s, 2, Len(s)))

ReadQIdent(q, i) ==
    LET c == CloseQuote(q, i + 1)
    IN IF At(q, i) # DQ \/ c = 0
       THEN [ok |-> FALSE, name |-> <<>>, next |-> Len(q) + 2]
       ELSE [ok |-> TRUE, name |-> Unescape(SubSeq(q, i + 1, c - 1)),
             next |-> c + 1]

RECURSIVE DigitsEnd(_, _)
DigitsEnd(q, j) == IF IsDigit(At(q, j)) THEN DigitsEnd(q, j + 1) ELSE j

\* An integer literal: an optional sign and at least one digit.
ReadInt(q, i) ==
    LET neg == At(q, i) = "-"
        from == IF neg THEN i + 1 ELSE i
        to == DigitsEnd(q, from)
        mag == DigitsVal(SubSeq(q, from, to - 1))
    IN IF to = from THEN [ok |-> FALSE, n |-> 0, next |-> Len(q) + 2]
       ELSE [ok |-> TRUE, n |-> IF neg THEN -mag ELSE mag, next |-> to]

\* SELECT * FROM "t"
ParseSelect(q) ==
    LET t == ReadQIdent(q, 2)
    IN [ok |-> At(q, 1) = "SELECT * FROM " /\ t.ok, pos |-> t.next,
        table |-> t.name, hasWhere |-> FALSE, col |-> <<>>, taut |-> FALSE,
        hasUnion |-> FALSE, utable |-> <<>>, hasLimit |-> FALSE, limit |-> 0,
        nparams |-> 0]

\* WHERE "c" = ?
ParseWhere(q, st) ==
    IF At(q, st.pos) # " WHERE " THEN st
    ELSE LET c == ReadQIdent(q, st.pos + 1)
         IN [st EXCEPT !.ok = st.ok /\ c.ok /\ At(q, c.next) = " = ?",
                       !.pos = c.next + 1, !.hasWhere = TRUE, !.col = c.name,
                       !.nparams = 1]

\* OR 1=1
ParseOr(q, st) ==
    IF At(q, st.pos) # " OR 1=1" THEN st
    ELSE [st EXCEPT !.ok = st.ok /\ st.hasWhere, !.pos = st.pos + 1,
                    !.taut = TRUE]

\* UNION ALL SELECT * FROM "u"
ParseUnion(q, st) ==
    IF At(q, st.pos) # " UNION ALL SELECT * FROM " THEN st
    ELSE LET u == ReadQIdent(q, st.pos + 1)
         IN [st EXCEPT !.ok = st.ok /\ u.ok, !.pos = u.next,
                       !.hasUnion = TRUE, !.utable = u.name]

\* LIMIT n
ParseLimit(q, st) ==
    IF At(q, st.pos) # " LIMIT " THEN st
    ELSE LET lim == ReadInt(q, st.pos + 1)
         IN [st EXCEPT !.ok = st.ok /\ lim.ok, !.pos = lim.next,
                       !.hasLimit = TRUE, !.limit = lim.n]

\* -- starts a comment that runs to the end of the text
ParseComment(q, st) ==
    IF At(q, st.pos) # " --" THEN st ELSE [st EXCEPT !.pos = Len(q) + 1]

\* The statement is well formed when nothing is left unread.
ParseQuery(q) ==
    LET st == ParseComment(q, ParseLimit(q, ParseUnion(q,
                  ParseOr(q, ParseWhere(q, ParseSelect(q))))))
    IN [st EXCEPT !.ok = st.ok /\ st.pos = Len(q) + 1]

\* The position of a column in a table, 0 when the table has none so named.
ColIndex(cols, name) ==
    IF \E i \in 1..Len(cols) : cols[i] = name
    THEN CHOOSE i \in 1..Len(cols) : cols[i] = name ELSE 0

IsIntText(s) == Len(s) > 0 /\ \A i \in 1..Len(s) : IsDigit(s[i])

\* column = ? with a text bound to ?: a column of integers takes the text as
\* a number, NULL equals nothing.
SqlEq(cell, text) ==
    CASE cell.t = "int" -> IsIntText(text) /\ DigitsVal(text) = cell.n
      [] cell.t = "str" -> cell.s = text
      [] OTHER -> FALSE

Min(a, b) == IF a <= b THEN a ELSE b

\* LIMIT n: a negative n is no limit in SQLite
ApplyLimit(rows, hasLimit, n) ==
    IF hasLimit /\ n >= 0 THEN SubSeq(rows, 1, Min(n, Len(rows))) ELSE rows

Failure == [raised |-> TRUE, rows |-> <<>>]

\* cursor = conn.execute(query, params); rows = cursor.fetchall()
Execute(q, params) ==
    LET p == ParseQuery(q)
    IN IF file.content # "sqlite" THEN Failure
       ELSE IF ~p.ok \/ p.nparams # Len(params) THEN Failure
       ELSE IF p.table \notin DOMAIN db THEN Failure
       ELSE IF p.hasUnion /\ p.utable \notin DOMAIN db THEN Failure
       ELSE LET t == db[p.table]
                ci == ColIndex(t.cols, p.col)
                Match(row) ==
                    \/ p.taut
                    \/ IF ci > 0 THEN SqlEq(row[ci], params[1])
                       ELSE p.col = params[1]
                selected == IF p.hasWhere THEN SelectSeq(t.rows, Match)
                            ELSE t.rows
            IN IF p.hasWhere /\ ci = 0 /\ ~dqs THEN Failure
               ELSE IF p.hasUnion /\ Len(db[p.utable].cols) # Len(t.cols)
               THEN Failure
               ELSE [raised |-> FALSE,
                     rows |-> ApplyLimit(
                         IF p.hasUnion THEN selected \o db[p.utable].rows
                         ELSE selected,
                         p.hasLimit, p.limit)]

\* ---------------------------------------------------------------- fixtures
\* Two contents of metadata.json.  MetaA: every table has keys, the numbers
\* of the ids differ within a table and so do the labels; the file lists
\* V10 before V9.  MetaB: two keys of one table carry the same label and ids
\* V1 and V01, and no key ends with _per_rv.
MetaA ==
    << MetaEntry(<<"size", "_hh", "_fv">>, <<"V", "1", "0">>, "Size", FALSE, EmptyMap),
       MetaEntry(<<"region", "_hh", "_fv">>, <<"V", "9">>, "Region", TRUE,
                 <<"1">> :> <<"North">> @@ <<"2">> :> <<"South">>),
       MetaEntry(<<"sector", "_hh", "_rv">>, <<"V", "1">>, "Sector", TRUE,
                 <<"1">> :> <<"Rural">>),
       MetaEntry(<<"age", "_per", "_fv">>, <<"V", "3">>, "Age", TRUE, EmptyMap),
       MetaEntry(<<"sex", "_per", "_fv">>, <<"V", "2">>, "Sex", TRUE,
                 <<"1">> :> <<"Male">> @@ <<"N", "o", "n", "e">> :> <<"Unknown">>),
       MetaEntry(<<"age", "_per", "_rv">>, <<"V", "3">>, "Age", FALSE, EmptyMap),
       MetaEntry(<<"note", "_fv">>, <<"V", "1">>, "Note", FALSE, EmptyMap) >>

MetaB ==
    << MetaEntry(<<"region", "_hh", "_fv">>, <<"V", "1">>, "Region", TRUE,
                 <<"1">> :> <<"North">>),
       MetaEntry(<<"zone", "_hh", "_fv">>, <<"V", "0", "1">>, "Region", FALSE, EmptyMap),
       MetaEntry(<<"sector", "_hh", "_rv">>, <<"V", "1">>, "Sector", FALSE, EmptyMap),
       MetaEntry(<<"sex", "_per", "_fv">>, <<"V", "2">>, "Sex", TRUE,
                 <<"1">> :> <<"Male">>),
       MetaEntry(<<"age", "_per", "_fv">>, <<"W", "2">>, "Age", FALSE, EmptyMap) >>

MetadataFiles == {MetaA, MetaB}

StoredTable(cols, rows) == [cols |-> cols, rows |-> rows]

\* Two contents of the storage file.  DbA: every table is as wide as MetaA's
\* keys for it.  DbB: HHFV has a column more and PERFV a column less.
DbA ==
    HHFV :> StoredTable(<<<<"c1">>, <<"c2">>>>,
                        << <<IntV(1), IntV(7)>>,
                           <<IntV(2), StrV(<<"x">>)>>,
                           <<StrV(<<"1">>), NullV>> >>)
    @@ HHRV :> StoredTable(<<<<"c1">>>>, << <<IntV(1)>>, <<IntV(5)>> >>)
    @@ PERFV :> StoredTable(<<<<"c1">>, <<"c2">>>>,
                            << <<NullV, IntV(4)>>, <<IntV(1), IntV(30)>> >>)
    @@ PERRV :> StoredTable(<<<<"c1">>>>, << <<IntV(12)>> >>)

DbB ==
    HHFV :> StoredTable(<<<<"c1">>, <<"c2">>, <<"c3">>>>,
                        << <<IntV(1), IntV(7), IntV(0)>> >>)
    @@ HHRV :> StoredTable(<<<<"c1">>>>, << <<IntV(1)>>, <<IntV(5)>> >>)
    @@ PERFV :> StoredTable(<<<<"c1">>>>, << <<IntV(1)>>, <<IntV(2)>> >>)
    @@ PERRV :> StoredTable(<<<<"c1">>>>, <<>>)

StorageFiles == {DbA, DbB}

\* ---------------------------------------------------------------- requests
TableNames ==
    { <<"h", "h", "f", "v", "_2019-20">>, HHRV,
      <<"P", "e", "r", "F", "v", "_2019-20">>, PERRV,
      <<"u", "s", "e", "r", "s">>, <<"H", "H", "F", "V", "_2019-21">> }

Limits == {NoLimit, Limit(-1), Limit(0), Limit(1), Limit(2), Limit(10)}

\* filter_col: absent, empty, a column, no column, an unbalanced quote, and
\* two texts that close the quoted name and go on with SQL of their own.
InjectAll == <<"c1", DQ, " = ?", " OR 1=1", " --">>
InjectUnion ==
    <<"c1", DQ, " = ?", " UNION ALL SELECT * FROM ", DQ>> \o PERFV \o <<DQ, " --">>

FilterCols ==
    { None, Some(<<>>), Some(<<"c1">>), Some(<<"zz">>), Some(<<"c1", DQ>>),
      Some(InjectAll), Some(InjectUnion) }

FilterVals == {None, Some(<<>>), Some(<<"1">>), Some(<<"2">>)}

Inputs == [path : TableNames, limit : Limits,
           filter_col : FilterCols, filter_val : FilterVals]

SysInputs == [path : {HHFV, <<"u", "s", "e", "r", "s">>}, limit : {NoLimit},
              filter_col : {None, Some(<<"zz">>)},
              filter_val : {Some(<<"1">>)}]

Idle ==
    [pc |-> "idle", path |-> <<>>, table_name |-> <<>>, limit |-> NoLimit,
     filter_col |-> None, filter_val |-> None, query |-> <<>>, params |-> <<>>,
     conn |-> 0, executed |-> FALSE, rows |-> <<>>, status |-> 0, data |-> <<>>,
     error |-> ""]

\* Mutant: the allow-list compared on the first four letters only.
TableAllowedByPrefix(path) ==
    \E t \in allowed_tables : SubSeq(Upper(path), 1, 4) = SubSeq(t, 1, 4)

\* if table_name not in allowed_tables, after table_name = table_name.upper()
TableAllowed(path) == Upper(path) \in allowed_tables

\* get_table_data up to the with statement: the 404, or query and params
Receive(r, in) ==
    /\ proc = "serving"
    /\ req[r].pc = "idle"
    /\ LET table_name == Upper(in.path)
           got == [Idle EXCEPT !.path = in.path, !.table_name = table_name,
                               !.limit = in.limit,
                               !.filter_col = in.filter_col,
                               !.filter_val = in.filter_val]
       IN req' = [req EXCEPT ![r] =
              IF ~TableAllowed(in.path)
              THEN [got EXCEPT !.pc = "done", !.status = 404]
              ELSE IF get_metadata_keys(table_name).raised
              THEN [got EXCEPT !.pc = "done", !.status = 500,
                               !.error = "ValueError"]
              ELSE [got EXCEPT
                      !.pc = "connect",
                      !.query = BuildQuery(table_name, in.limit,
                                           in.filter_col, in.filter_val),
                      !.params = BuildParams(in.filter_col, in.filter_val)]]
    /\ UNCHANGED <<metadata, db, dqs, file, proc, conns>>

\* The connections that are neither open nor the past connection of a slot.
FreeConns == {c \in 1..MaxConns : c \notin conns /\ \A r \in DOMAIN req : req[r].conn # c}

FreeConn == CHOOSE c \in FreeConns : \A d \in FreeConns : c <= d

\* sqlite3.connect(DB_PATH): a connection of this request alone
Connect(r) ==
    /\ proc = "serving"
    /\ req[r].pc = "connect"
    /\ FreeConns # {}
    /\ conns' = conns \cup {FreeConn}
    /\ req' = [req EXCEPT ![r].conn = FreeConn, ![r].pc = "execute"]
    /\ UNCHANGED <<metadata, db, dqs, file, proc>>

\* What leaving the with block does to the connection.  The context manager
\* of sqlite3.Connection commits or rolls back; it does not close.
ExitWith(open, c) == open

\* The body of the with statement and its exit: an error of execute leaves
\* the handler as a 500.
Fetch(r) ==
    /\ proc = "serving"
    /\ req[r].pc = "execute"
    /\ LET res == Execute(req[r].query, req[r].params)
       IN req' = [req EXCEPT ![r] =
              IF res.raised
              THEN [@ EXCEPT !.pc = "done", !.executed = TRUE, !.status = 500,
                             !.error = "sqlite3.Error"]
              ELSE [@ EXCEPT !.pc = "decode", !.executed = TRUE,
                             !.rows = res.rows]]
    /\ conns' = ExitWith(conns, req[r].conn)
    /\ UNCHANGED <<metadata, db, dqs, file, proc>>

\* The loops over rows and the return: an IndexError is a 500.
Decode(r) ==
    /\ proc = "serving"
    /\ req[r].pc = "decode"
    /\ LET meta_keys == get_metadata_keys(req[r].table_name).keys
           d == DecodeRows(req[r].rows, Labels(meta_keys),
                           CategoriesList(meta_keys))
       IN req' = [req EXCEPT ![r] =
              IF d.raised
              THEN [@ EXCEPT !.pc = "done", !.status = 500,
                             !.error = "IndexError"]
              ELSE [@ EXCEPT !.pc = "done", !.status = 200,
                             !.data = d.result]]
    /\ UNCHANGED <<metadata, db, dqs, file, proc, conns>>

\* The interpreter finalizes a connection that no running handler refers to;
\* when it does so is up to the interpreter.
Finalize(c) ==
    /\ c \in conns
    /\ \A r \in DOMAIN req : req[r].conn = c => req[r].pc = "done"
    /\ conns' = conns \ {c}
    /\ UNCHANGED <<metadata, db, dqs, file, proc, req>>

\* The response has been sent; the slot takes the next request.
Respond(r) ==
    /\ req[r].pc = "done"
    /\ req' = [req EXCEPT ![r] = Idle]
    /\ UNCHANGED <<metadata, db, dqs, file, proc, conns>>

\* ----------------------------------------------------------------- startup
Absent == [content |-> "absent", fetched |-> FALSE]

\* if not Path(DB_PATH).exists():
Boot ==
    /\ proc = "down"
    /\ proc' = IF file.content = "absent" THEN "downloading" ELSE "serving"
    /\ UNCHANGED <<metadata, db, dqs, file, req, conns>>

\* download_from_dropbox up to the sanity check.  raise_for_status raises
\* before dest_path is opened; a stream that breaks leaves what was written.
Download(outcome) ==
    /\ proc = "downloading"
    /\ CASE outcome = "http_error" -> proc' = "down" /\ file' = file
         [] outcome = "interrupted" ->
              proc' = "down" /\ file' = [content |-> "other", fetched |-> TRUE]
         [] outcome = "sqlite" ->
              proc' = "checking" /\ file' = [content |-> "sqlite", fetched |-> TRUE]
         [] outcome = "other" ->
              proc' = "checking" /\ file' = [content |-> "other", fetched |-> TRUE]
    /\ UNCHANGED <<metadata, db, dqs, req, conns>>

Outcomes == {"http_error", "interrupted", "sqlite", "other"}

\* header.startswith(b"SQLite format 3"), else RuntimeError: the file stays
SanityCheck ==
    /\ proc = "checking"
    /\ proc' = IF file.content = "sqlite" THEN "serving" ELSE "down"
    /\ UNCHANGED <<metadata, db, dqs, file, req, conns>>

\* The process ends: its handlers and its connections end with it.
Stop ==
    /\ proc = "serving"
    /\ proc' = "down"
    /\ req' = [r \in DOMAIN req |-> Idle]
    /\ conns' = {}
    /\ UNCHANGED <<metadata, db, dqs, file>>

\* --------------------------------------------------------- specifications
\* Spec: one handler at a time over every request of Inputs, the process
\* serving from a storage file that was there.
Init ==
    /\ metadata \in MetadataFiles
    /\ db \in StorageFiles
    /\ dqs \in BOOLEAN
    /\ file = [content |-> "sqlite", fetched |-> FALSE]
    /\ proc = "serving"
    /\ req = [r \in {1} |-> Idle]
    /\ conns = {}

Next ==
    \/ \E in \in Inputs : Receive(1, in)
    \/ Connect(1)
    \/ Fetch(1)
    \/ Decode(1)
    \/ Respond(1)
    \/ \E c \in 1..MaxConns : Finalize(c)

Spec == Init /\ [][Next]_vars

\* SysSpec: the process from its start, restarts included, with NReq
\* handlers running concurrently.
SysInit ==
    /\ metadata = MetaA
    /\ db = DbA
    /\ dqs \in BOOLEAN
    /\ file \in {Absent, [content |-> "sqlite", fetched |-> FALSE]}
    /\ proc = "down"
    /\ req = [r \in 1..NReq |-> Idle]
    /\ conns = {}

SysNext ==
    \/ Boot
    \/ \E o \in Outcomes : Download(o)
    \/ SanityCheck
    \/ Stop
    \/ \E r \in 1..NReq : \E in \in SysInputs : Receive(r, in)
    \/ \E r \in 1..NReq : Connect(r)
    \/ \E r \in 1..NReq : Fetch(r)
    \/ \E r \in 1..NReq : Decode(r)
    \/ \E r \in 1..NReq : Respond(r)
    \/ \E c \in 1..MaxConns : Finalize(c)

SysSpec == SysInit /\ [][SysNext]_vars

\* ================================================================== claims
Slots == DOMAIN req

ValidDone(r) == req[r].pc = "done" /\ req[r].table_name \in allowed_tables

\* The keys of the metadata that end with the suffix of table t.
KeysOf(t) == {k \in {metadata[i].key : i \in 1..Len(metadata)} :
                  EndsWith(k, suffix_map(t))}

FilePos(k) == CHOOSE i \in 1..Len(metadata) : metadata[i].key = k

\* ---- C1
\* C1: a request whose table name, in upper case, is not one of the four
\* allowed identifiers is answered 404, whatever its other parameters are,
\* and for it no connection is opened, no query text is built and nothing
\* is executed.
C1_UnknownTableNeverTouchesStorage ==
    \A r \in Slots :
        (req[r].pc # "idle" /\ Upper(req[r].path) \notin allowed_tables) =>
            /\ req[r].pc = "done"
            /\ req[r].status = 404
            /\ req[r].conn = 0
            /\ ~req[r].executed
            /\ req[r].query = <<>>

C1_Witness ==
    /\ req[1].pc = "done"
    /\ req[1].status = 404
    /\ req[1].path = <<"H", "H", "F", "V", "_2019-21">>
    /\ req[1].filter_col = Some(InjectAll)
    /\ req[1].filter_val = Some(<<"1">>)
    /\ req[1].limit = Limit(0)

\* ---- C6
Ascending(keys) ==
    \A i, j \in 1..Len(keys) : i < j =>
        \/ IdNum(keys[i]) < IdNum(keys[j])
        \/ IdNum(keys[i]) = IdNum(keys[j]) /\ FilePos(keys[i]) < FilePos(keys[j])

StrictlyAscending(keys) ==
    \A i, j \in 1..Len(keys) : i < j => IdNum(keys[i]) < IdNum(keys[j])

ExactlyKeysOf(t, keys) ==
    /\ {keys[i] : i \in 1..Len(keys)} = KeysOf(t)
    /\ Len(keys) = Cardinality(KeysOf(t))

OtherIdentifiers ==
    (TableNames \cup {Upper(n) : n \in TableNames}) \ allowed_tables

\* C6 (as claimed): for each of the four tables get_metadata_keys returns a
\* non-empty list of exactly the keys with the table's suffix, strictly
\* ascending by the number in the id; for any other identifier it fails.
C6_Original ==
    /\ \A t \in allowed_tables :
          LET res == get_metadata_keys(t)
          IN ~res.raised /\ Len(res.keys) > 0 /\ ExactlyKeysOf(t, res.keys)
             /\ StrictlyAscending(res.keys)
    /\ \A t \in OtherIdentifiers : get_metadata_keys(t).raised

\* C6 (amended): for each of the four tables get_metadata_keys returns
\* exactly the keys with the table's suffix, each once (none when the
\* metadata has none), ascending by the number in the id, keys with the same
\* number in the order of the metadata file; for any other identifier it
\* fails.
C6_ResolveSortedStable ==
    /\ \A t \in allowed_tables :
          LET res == get_metadata_keys(t)
          IN ~res.raised /\ ExactlyKeysOf(t, res.keys) /\ Ascending(res.keys)
    /\ \A t \in OtherIdentifiers : get_metadata_keys(t).raised

C6_Witness ==
    /\ req[1].pc = "done"
    /\ req[1].status = 200
    /\ req[1].table_name = HHFV
    /\ get_metadata_keys(HHFV).keys =
           << <<"region", "_hh", "_fv">>, <<"zone", "_hh", "_fv">> >>
    /\ IdNum(<<"region", "_hh", "_fv">>) = IdNum(<<"zone", "_hh", "_fv">>)
    /\ get_metadata_keys(PERRV).keys = <<>>

\* ---- C2
\* What the claim says column i of a row decodes to.
Expected(k, v) ==
    LET e == Entry(k)
    IN IF e.hasCat /\ DOMAIN e.categories # {} /\ Str(v) \in DOMAIN e.categories
       THEN StrV(e.categories[Str(v)]) ELSE v

FullWidth(r) ==
    \A j \in 1..Len(req[r].rows) :
        Len(req[r].rows[j]) = Len(get_metadata_keys(req[r].table_name).keys)

LastWithLabel(keys, i) ==
    \A h \in 1..Len(keys) : h > i => Entry(keys[h]).label # Entry(keys[i]).label

\* C2 (as claimed): for every fetched row as wide as the resolved keys, and
\* every position i, the decoded row maps the label of key i to the
\* category of str(value i) when there is one and to value i itself
\* otherwise, and decoding raises nothing.
C2_Original ==
    \A r \in Slots :
        (ValidDone(r) /\ req[r].error \notin {"sqlite3.Error", "ValueError"}
                      /\ FullWidth(r)) =>
            LET keys == get_metadata_keys(req[r].table_name).keys
            IN /\ req[r].status = 200
               /\ Len(req[r].data) = Len(req[r].rows)
               /\ \A j \in 1..Len(req[r].rows) : \A i \in 1..Len(keys) :
                      req[r].data[j][Entry(keys[i]).label] =
                          Expected(keys[i], req[r].rows[j][i])

\* C2 (amended): the same for every position i whose label no later key of
\* the table carries (every position when the labels of the table differ);
\* a label that several keys carry maps to the decoded value of the last of
\* them.  The decoded row has the labels of the keys as its fields.
C2_DecodeLastLabelWins ==
    \A r \in Slots :
        (ValidDone(r) /\ req[r].error \notin {"sqlite3.Error", "ValueError"}
                      /\ FullWidth(r)) =>
            LET keys == get_metadata_keys(req[r].table_name).keys
            IN /\ req[r].status = 200
               /\ Len(req[r].data) = Len(req[r].rows)
               /\ \A j \in 1..Len(req[r].rows) :
                      /\ DOMAIN req[r].data[j] =
                             {Entry(keys[i]).label : i \in 1..Len(keys)}
                      /\ \A i \in 1..Len(keys) : LastWithLabel(keys, i) =>
                             req[r].data[j][Entry(keys[i]).label] =
                                 Expected(keys[i], req[r].rows[j][i])

\* A response that holds a category, a value without an entry in a
\* non-empty mapping, a value of a column without mapping and a NULL.
C2_Witness ==
    /\ req[1].pc = "done"
    /\ req[1].status = 200
    /\ metadata = MetaA
    /\ req[1].table_name = HHFV
    /\ Len(req[1].data) = 3
    /\ req[1].data[1] = ("Region" :> StrV(<<"North">>) @@ "Size" :> IntV(7))
    /\ req[1].data[3] = ("Region" :> StrV(<<"North">>) @@ "Size" :> NullV)

\* ---- C3, C4, C5, C7: the rows a request is meant to get
HasFilter(r) == FilterApplies(req[r].filter_col, req[r].filter_val)

FilterIndex(r) == ColIndex(db[req[r].table_name].cols, req[r].filter_col.s)

\* The rows of the requested table whose column filter_col equals
\* filter_val; every row of it when no filter applies.
MatchingRows(r) ==
    LET t == db[req[r].table_name]
        ci == FilterIndex(r)
        Equal(row) == ci > 0 /\ SqlEq(row[ci], req[r].filter_val.s)
    IN IF HasFilter(r) THEN SelectSeq(t.rows, Equal) ELSE t.rows

Active(r) == req[r].pc # "idle" /\ req[r].table_name \in allowed_tables

\* A filter of which one half is absent or empty leaves the query and the
\* parameters of the request that has neither.
OneSidedFilterIsNoFilter ==
    \A r \in Slots :
        (Active(r) /\ req[r].error # "ValueError" /\ ~HasFilter(r)) =>
            /\ req[r].query = BuildQuery(req[r].table_name, req[r].limit, None, None)
            /\ req[r].params = BuildParams(None, None)

\* C3: a request with only one of filter_col and filter_val (or an empty
\* one) runs the query of the request with neither; with both, only rows of
\* the table whose column filter_col equals filter_val are returned.
C3_Original ==
    /\ OneSidedFilterIsNoFilter
    /\ \A r \in Slots :
          (ValidDone(r) /\ req[r].status = 200 /\ HasFilter(r)) =>
              \A j \in 1..Len(req[r].rows) :
                  /\ \E h \in 1..Len(db[req[r].table_name].rows) :
                         db[req[r].table_name].rows[h] = req[r].rows[j]
                  /\ FilterIndex(r) > 0
                  /\ SqlEq(req[r].rows[j][FilterIndex(r)], req[r].filter_val.s)

\* C4: a request with a limit >= 0 that is answered with data gets exactly
\* min(limit, number of matching rows) objects, none for limit 0; without
\* limit it gets every matching row.  (A request that ends in an error of
\* the storage engine or of the decoding carries no data and is left aside.)
C4_Original ==
    \A r \in Slots :
        (ValidDone(r) /\ req[r].status = 200
                      /\ (req[r].limit.isNone \/ req[r].limit.n >= 0)) =>
            Len(req[r].data) =
                IF req[r].limit.isNone THEN Len(MatchingRows(r))
                ELSE Min(req[r].limit.n, Len(MatchingRows(r)))

\* The part of C4 that the code keeps: the count is right whenever the
\* filter is not applied or names a column of the table.
CountRightForPhysicalColumn ==
    \A r \in Slots :
        (ValidDone(r) /\ req[r].status = 200
                      /\ (req[r].limit.isNone \/ req[r].limit.n >= 0)
                      /\ (HasFilter(r) => FilterIndex(r) > 0)) =>
            Len(req[r].data) =
                IF req[r].limit.isNone THEN Len(MatchingRows(r))
                ELSE Min(req[r].limit.n, Len(MatchingRows(r)))

HasQuote(s) == \E i \in 1..Len(s) : s[i] = DQ

\* The engine reads, as the name of the filter column, the text of
\* filter_col and nothing else.
ReadAsOneName(r) ==
    /\ ParseQuery(req[r].query).ok
    /\ ParseQuery(req[r].query).col = req[r].filter_col.s

\* C5: with a valid table and both filter parameters, filter_col names a
\* column of the table or is read by the engine as one name, or else the
\* request is answered 400 before anything is executed; and every answer
\* with data holds only rows of the requested table whose column filter_col
\* equals filter_val.
C5_Original ==
    \A r \in Slots :
        (ValidDone(r) /\ HasFilter(r)) =>
            /\ \/ FilterIndex(r) > 0
               \/ ReadAsOneName(r) /\ ~HasQuote(req[r].filter_col.s)
               \/ req[r].status = 400 /\ ~req[r].executed
            /\ req[r].status = 200 =>
                  \E from, to \in 0..Len(MatchingRows(r)) :
                      req[r].rows = SubSeq(MatchingRows(r), from, to)

\* An answer to a request for HHFV that carries the rows of PERFV.
C5_RowsOfAnotherTable ==
    /\ req[1].pc = "done"
    /\ req[1].status = 200
    /\ req[1].table_name = HHFV
    /\ req[1].filter_col = Some(InjectUnion)
    /\ \E j \in 1..Len(req[1].rows) : req[1].rows[j] = db[PERFV].rows[1]
    /\ Len(req[1].data) > Len(db[HHFV].rows)

\* C7: a query is executed only for a limit that is absent or >= 0, and an
\* answer to a request with a limit never holds more than limit objects.
C7_Original ==
    \A r \in Slots :
        /\ req[r].executed => (req[r].limit.isNone \/ req[r].limit.n >= 0)
        /\ (req[r].status = 200 /\ ~req[r].limit.isNone) =>
               Len(req[r].data) <= req[r].limit.n

\* C8: when a fetched row is wider or narrower than the keys resolved for
\* the table, the request ends in a server error and returns no object.
C8_Original ==
    \A r \in Slots :
        (ValidDone(r) /\ req[r].error \notin {"sqlite3.Error", "ValueError"}
                      /\ ~FullWidth(r)) =>
            req[r].status = 500 /\ req[r].data = <<>>

\* ---- C9 (SysSpec)
\* C9: a request that has finished has closed the connection it opened,
\* also when execute raised; with no request running no connection is
\* open; no two requests hold the same connection.
C9_Original ==
    /\ \A r \in Slots :
          (req[r].pc = "done" /\ req[r].conn # 0) => req[r].conn \notin conns
    /\ (\A r \in Slots : req[r].pc \in {"idle", "done"}) => conns = {}
    /\ \A r1, r2 \in Slots :
          (r1 # r2 /\ req[r1].conn # 0) => req[r1].conn # req[r2].conn

\* ---- C10 (SysSpec)
\* C10: the remote fetch runs only when the storage file is absent, and the
\* process serves only from a file that was not fetched or that carries the
\* SQLite signature, also after a restart.
C10_Original ==
    /\ proc = "downloading" => file.content = "absent"
    /\ proc = "serving" => (~file.fetched \/ file.content = "sqlite")

====
